---- MODULE Spec2Model ----
(***************************************************************************)
(* Model of examples/StringToAGraphExample.py of bingo: the infix to       *)
(* postfix conversion (convert_to_postfix, a shunting-yard loop) and the   *)
(* assembly of a command array from the postfix tokens (postfix_to_agraph).*)
(* A token is a Python string, modelled as the sequence of its characters. *)
(* Further parts model EaDiagnostics (evolutionary_algorithms/              *)
(* ea_diagnostics.py) and the properties of ScipyOptimizer                 *)
(* (local_optimizers/scipy_optimizer.py), each under a specification of    *)
(* its own.                                                                *)
(***************************************************************************)
EXTENDS Integers, Sequences, FiniteSets, TLC

\* Longest arbitrary token sequence handed to either function.
MaxLen == 4
\* Largest number of binary operations in a fully-parenthesized input.
MaxOps == 2
\* Largest number of compilations made one after the other.
MaxCalls == 3
\* Largest number of EaDiagnostics.update calls on one instance.
MaxUpdates == 2
\* Largest number of offspring handed to one update.
MaxOffspring == 2

Front(s) == SubSeq(s, 1, Len(s) - 1)
Last(s) == s[Len(s)]

-----------------------------------------------------------------------------
(* Module-level tables of the example, lines 7-11.                         *)

Tok(c) == <<c>>
LParen == Tok("(")
RParen == Tok(")")

operators == {Tok("+"), Tok("-"), Tok("*"), Tok("/"), Tok("^")}

precedence ==
    [t \in operators |->
        CASE t = Tok("+") -> 0
          [] t = Tok("-") -> 0
          [] t = Tok("*") -> 1
          [] t = Tok("/") -> 1
          [] t = Tok("^") -> 2]

operator_map ==
    [c \in {"+", "-", "*", "/", "^", "X", "C"} |->
        CASE c = "+" -> "ADDITION"
          [] c = "-" -> "SUBTRACTION"
          [] c = "*" -> "MULTIPLICATION"
          [] c = "/" -> "DIVISION"
          [] c = "^" -> "POWER"
          [] c = "X" -> "VARIABLE"
          [] c = "C" -> "CONSTANT"]

Digit == {"0", "1", "2", "3", "4", "5", "6", "7", "8", "9"}

DigitVal ==
    [c \in Digit |->
        CASE c = "0" -> 0 [] c = "1" -> 1 [] c = "2" -> 2 [] c = "3" -> 3
          [] c = "4" -> 4 [] c = "5" -> 5 [] c = "6" -> 6 [] c = "7" -> 7
          [] c = "8" -> 8 [] c = "9" -> 9]

\* var_or_const_pattern.fullmatch(token): ([XC])_(\d+) over the whole token.
FullMatch(token) ==
    /\ Len(token) >= 3
    /\ token[1] \in {"X", "C"}
    /\ token[2] = "_"
    /\ \A p \in 3..Len(token) : token[p] \in Digit

\* int(groups[1]) of a matched token: the decimal value of its digits.
RECURSIVE IntOf(_)
IntOf(ds) == IF ds = <<>> THEN 0 ELSE 10 * IntOf(Front(ds)) + DigitVal[Last(ds)]

GroupKind(token) == token[1]
GroupIndex(token) == IntOf(SubSeq(token, 3, Len(token)))

-----------------------------------------------------------------------------
(* Outcomes of a call.                                                     *)

NoException == "none"
IndexError == "IndexError"
MismatchedParenthesis == "RuntimeError: Mismatched parenthesis"
PostfixError == "RuntimeError: Error evaluating postfix expression"

-----------------------------------------------------------------------------
(* Inputs.                                                                 *)

X_0 == <<"X", "_", "0">>
X_1 == <<"X", "_", "1">>
X_2 == <<"X", "_", "2">>
C_0 == <<"C", "_", "0">>
C_1 == <<"C", "_", "1">>
\* a token that is no operator, no parenthesis and fails the leaf pattern
Unmatched == <<"X", "1">>

\* expression of __main__: "X_0 + X_1 + C_0 + C_1".split(" ")
MainExpression == <<X_0, Tok("+"), X_1, Tok("+"), C_0, Tok("+"), C_1>>

Alphabet == {Tok("+"), Tok("*"), LParen, RParen, X_0, X_1, C_1, Unmatched}

ArbitraryInputs == UNION {[1..n -> Alphabet] : n \in 0..MaxLen}

\* a op1 b op2 c without parentheses, every pair of operators
TwoOperatorInputs ==
    {<<a, op1, b, op2, c>> : a \in {X_0, C_0}, op1 \in operators, b \in {X_1, C_0},
                             op2 \in operators, c \in {X_2, X_0}}

\* Expression trees: a leaf <<code, n>> or a node <<code, left, right>>.
FPLeaves == {<<"VARIABLE", 0>>, <<"CONSTANT", 12>>}
OperatorCodes == {"ADDITION", "SUBTRACTION", "MULTIPLICATION", "DIVISION", "POWER"}

RECURSIVE TreesWith(_)
TreesWith(n) ==
    IF n = 0 THEN FPLeaves
    ELSE UNION {{<<c, l, r>> : c \in OperatorCodes, l \in TreesWith(a),
                               r \in TreesWith(n - 1 - a)} : a \in 0..(n - 1)}

FPTrees == UNION {TreesWith(n) : n \in 0..MaxOps}

DigitChar == [n \in 0..9 |-> CHOOSE c \in Digit : DigitVal[c] = n]

RECURSIVE Decimal(_)
Decimal(n) == IF n < 10 THEN <<DigitChar[n]>>
              ELSE Decimal(n \div 10) \o <<DigitChar[n % 10]>>

SymbolOf(code) == CHOOSE c \in DOMAIN operator_map : operator_map[c] = code

\* The fully-parenthesized infix tokens of a tree: a leaf, or ( left op right ).
RECURSIVE Render(_)
Render(t) ==
    IF Len(t) = 2 THEN <<(<<SymbolOf(t[1]), "_">> \o Decimal(t[2]))>>
    ELSE <<LParen>> \o Render(t[2]) \o <<Tok(SymbolOf(t[1]))>> \o Render(t[3])
         \o <<RParen>>

FPInputs == {Render(t) : t \in FPTrees}

\* inputs of compilations made one after the other: returning ones and one
\* for every way of failing
CallInputs ==
    {MainExpression,
     <<X_0, Tok("+"), X_1, Tok("*"), X_2>>,
     <<LParen, X_0, Tok("-"), C_1, RParen>>,
     <<Unmatched, Tok("*"), X_0>>,
     <<RParen>>,
     <<LParen, X_0>>,
     <<X_0, X_1>>,
     <<X_0, Tok("+")>>}

InfixInputs == ArbitraryInputs \cup TwoOperatorInputs \cup FPInputs \cup {MainExpression}
PostfixInputs == ArbitraryInputs

-----------------------------------------------------------------------------
(* State.                                                                  *)

VARIABLES
    pc,             \* where the run is: *_loop, *_drain, *_returned, *_raised
    exception,      \* the exception a call raised, or NoException
    infix_tokens,   \* argument of convert_to_postfix
    k,              \* position of the for loop over infix_tokens (1-based)
    stack,          \* convert_to_postfix: side stack, top is the last element
    output,         \* convert_to_postfix: output list
    d,              \* position of the final for loop over stack (1-based)
    postfix_tokens, \* argument of postfix_to_agraph
    j,              \* position of the for loop over postfix_tokens (1-based)
    agraph_stack,   \* postfix_to_agraph: stack of indices
    command_array,  \* postfix_to_agraph: rows <<code, operand1, operand2>>
    i,              \* postfix_to_agraph: row counter
    calls,          \* number of compilations started so far
    history         \* input and outcome of every earlier compilation

convert_vars == <<infix_tokens, k, stack, output, d>>
agraph_vars == <<postfix_tokens, j, agraph_stack, command_array, i>>
call_vars == <<calls, history>>
compile_vars == <<pc, exception, convert_vars, agraph_vars, call_vars>>

\* An EaDiagnostics instance; its attributes are named without the leading
\* underscore.  A stats array is <<count, beneficial, detrimental>>.
VARIABLES
    diagnostics,                    \* "absent", or "ready" once constructed
    crossover_types,                \* self._crossover_types
    mutation_types,                 \* self._mutation_types
    crossover_stats,                \* self._crossover_stats
    mutation_stats,                 \* self._mutation_stats
    cross_mut_stats,                \* self._cross_mut_stats
    crossover_type_stats,           \* self._crossover_type_stats
    mutation_type_stats,            \* self._mutation_type_stats
    crossover_mutation_type_stats,  \* self._crossover_mutation_type_stats
    updates,                        \* number of update calls so far
    only_mutation_totals            \* history: per mutation type, the offspring
                                    \* of all updates with that mutation and
                                    \* no crossover <<all, beneficial, detrimental>>

type_stats_vars ==
    <<crossover_type_stats, mutation_type_stats, crossover_mutation_type_stats>>
diag_vars ==
    <<diagnostics, crossover_types, mutation_types, crossover_stats, mutation_stats,
      cross_mut_stats, type_stats_vars, updates, only_mutation_totals>>

\* no EaDiagnostics instance exists
NoDiagnostics ==
    /\ diagnostics = "absent"
    /\ crossover_types = <<>> /\ mutation_types = <<>>
    /\ crossover_stats = <<>> /\ mutation_stats = <<>> /\ cross_mut_stats = <<>>
    /\ crossover_type_stats = <<>> /\ mutation_type_stats = <<>>
    /\ crossover_mutation_type_stats = <<>>
    /\ updates = 0 /\ only_mutation_totals = <<>>

\* no compilation is running
NoCompilation ==
    /\ pc = "idle" /\ exception = NoException
    /\ infix_tokens = <<>> /\ k = 1 /\ stack = <<>> /\ output = <<>> /\ d = 1
    /\ postfix_tokens = <<>>
    /\ j = 1 /\ agraph_stack = <<>> /\ command_array = <<>> /\ i = 0
    /\ calls = 0 /\ history = {}

\* A ScipyOptimizer instance; its attributes are named without the leading
\* underscore.  A dict is a function from its keys.
VARIABLES
    optimizer,          \* "absent", "ready" once constructed, "failed" when
                        \* __init__ raised
    options,            \* self._options
    scipy_options,      \* self._scipy_options
    objective_fn,       \* self._objective_fn
    jacobian_capable,   \* self._jacobian_capable
    gradient_capable,   \* self._gradient_capable
    raised              \* the exception of the last call on the instance

opt_vars ==
    <<optimizer, options, scipy_options, objective_fn, jacobian_capable,
      gradient_capable, raised>>

Unset == "unset"

\* no ScipyOptimizer instance exists
NoOptimizer ==
    /\ optimizer = "absent"
    /\ options = Unset /\ scipy_options = Unset /\ objective_fn = Unset
    /\ jacobian_capable = Unset /\ gradient_capable = Unset
    /\ raised = NoException

\* the variables the compiler does not touch
outside_compile == <<diag_vars, opt_vars>>

Init ==
    /\ exception = NoException
    /\ k = 1 /\ stack = <<>> /\ output = <<>> /\ d = 1
    /\ j = 1 /\ agraph_stack = <<>> /\ command_array = <<>> /\ i = 0
    /\ calls = 1 /\ history = {}
    /\ NoDiagnostics /\ NoOptimizer
    /\ \/ /\ pc = "convert_loop"
          /\ infix_tokens \in InfixInputs
          /\ postfix_tokens = <<>>
       \/ /\ pc = "agraph_loop"
          /\ infix_tokens = <<>>
          /\ postfix_tokens \in PostfixInputs

-----------------------------------------------------------------------------
(* convert_to_postfix                                                      *)

\* the comparison of line 21 made strict
ShouldPopStrict(st, token) ==
    /\ Len(st) > 0
    /\ Last(st) \in operators
    /\ precedence[Last(st)] > precedence[token]

\* condition of the while loop of line 21
ShouldPop(st, token) ==
    /\ Len(st) > 0
    /\ Last(st) \in operators
    /\ precedence[Last(st)] >= precedence[token]

\* lines 21-23: pop operators into the output, then push the token
RECURSIVE PopOperators(_, _, _)
PopOperators(st, out, token) ==
    IF ShouldPop(st, token)
    THEN PopOperators(Front(st), Append(out, Last(st)), token)
    ELSE [stack |-> Append(st, token), output |-> out]

\* lines 27-31 with the "(" moved to the output instead of discarded
RECURSIVE PopToParenKeep(_, _)
PopToParenKeep(st, out) ==
    IF Len(st) = 0
    THEN [stack |-> st, output |-> out, exception |-> IndexError]
    ELSE IF Last(st) = LParen
    THEN [stack |-> Front(st), output |-> Append(out, Last(st)),
          exception |-> NoException]
    ELSE PopToParenKeep(Front(st), Append(out, Last(st)))

\* lines 27-31: stack[-1] of an empty list raises IndexError before the
\* len(stack) == 0 test of line 28 is reached.
RECURSIVE PopToParen(_, _)
PopToParen(st, out) ==
    IF Len(st) = 0
    THEN [stack |-> st, output |-> out, exception |-> IndexError]
    ELSE IF Last(st) = LParen
    THEN [stack |-> Front(st), output |-> out, exception |-> NoException]
    ELSE IF Len(st) = 0
    THEN [stack |-> st, output |-> out, exception |-> MismatchedParenthesis]
    ELSE PopToParen(Front(st), Append(out, Last(st)))

\* line 33
AppendLeaf(out, token) == Append(out, token)

ConvertOperator ==
    /\ pc = "convert_loop" /\ k <= Len(infix_tokens)
    /\ infix_tokens[k] \in operators
    /\ LET r == PopOperators(stack, output, infix_tokens[k])
       IN  stack' = r.stack /\ output' = r.output
    /\ k' = k + 1
    /\ UNCHANGED <<pc, exception, infix_tokens, d, agraph_vars>>
    /\ UNCHANGED <<call_vars, outside_compile>>

ConvertOpenParen ==
    /\ pc = "convert_loop" /\ k <= Len(infix_tokens)
    /\ infix_tokens[k] = LParen
    /\ stack' = Append(stack, infix_tokens[k])
    /\ k' = k + 1
    /\ UNCHANGED <<pc, exception, infix_tokens, output, d, agraph_vars>>
    /\ UNCHANGED <<call_vars, outside_compile>>

ConvertCloseParen ==
    /\ pc = "convert_loop" /\ k <= Len(infix_tokens)
    /\ infix_tokens[k] = RParen
    /\ LET r == PopToParen(stack, output)
       IN  /\ stack' = r.stack /\ output' = r.output
           /\ exception' = r.exception
           /\ IF r.exception = NoException
              THEN pc' = pc /\ k' = k + 1
              ELSE pc' = "convert_raised" /\ k' = k
    /\ UNCHANGED <<infix_tokens, d, agraph_vars>>
    /\ UNCHANGED <<call_vars, outside_compile>>

ConvertLeaf ==
    /\ pc = "convert_loop" /\ k <= Len(infix_tokens)
    /\ infix_tokens[k] \notin operators \cup {LParen, RParen}
    /\ output' = AppendLeaf(output, infix_tokens[k])
    /\ k' = k + 1
    /\ UNCHANGED <<pc, exception, infix_tokens, stack, d, agraph_vars>>
    /\ UNCHANGED <<call_vars, outside_compile>>

\* the for loop of line 19 is exhausted: the for loop of line 35 starts
ConvertEndLoop ==
    /\ pc = "convert_loop" /\ k > Len(infix_tokens)
    /\ pc' = "convert_drain"
    /\ UNCHANGED <<exception, convert_vars, agraph_vars>>
    /\ UNCHANGED <<call_vars, outside_compile>>

\* lines 35-38: one iteration over the stack, from its bottom, without popping
ConvertDrain ==
    /\ pc = "convert_drain" /\ d <= Len(stack)
    /\ IF stack[d] = LParen
       THEN /\ pc' = "convert_raised" /\ exception' = MismatchedParenthesis
            /\ UNCHANGED <<output, d>>
       ELSE /\ output' = Append(output, stack[d]) /\ d' = d + 1
            /\ UNCHANGED <<pc, exception>>
    /\ UNCHANGED <<infix_tokens, k, stack, agraph_vars>>
    /\ UNCHANGED <<call_vars, outside_compile>>

\* line 40
ConvertReturn ==
    /\ pc = "convert_drain" /\ d > Len(stack)
    /\ pc' = "convert_returned"
    /\ UNCHANGED <<exception, convert_vars, agraph_vars>>
    /\ UNCHANGED <<call_vars, outside_compile>>

\* the array left over from the call before (a list shared between calls)
AgraphLocalsShared ==
    [agraph_stack |-> <<>>, command_array |-> command_array, i |-> 0]

\* lines 44-46: the locals postfix_to_agraph creates when it is entered
AgraphLocals ==
    [agraph_stack |-> <<>>, command_array |-> <<>>, i |-> 0]

\* lines 17-18: the locals convert_to_postfix creates when it is entered
ConvertLocals == [stack |-> <<>>, output |-> <<>>]

\* lines 72-74 of __main__: the postfix is handed to postfix_to_agraph
MainCallAgraph ==
    /\ pc = "convert_returned"
    /\ pc' = "agraph_loop"
    /\ postfix_tokens' = output
    /\ j' = 1
    /\ agraph_stack' = AgraphLocals.agraph_stack
    /\ command_array' = AgraphLocals.command_array
    /\ i' = AgraphLocals.i
    /\ UNCHANGED <<exception, convert_vars>>
    /\ UNCHANGED <<call_vars, outside_compile>>

-----------------------------------------------------------------------------
(* postfix_to_agraph                                                       *)

\* the first popped index stored as both operands
OperatorRowSameOperand(token, operands) ==
    <<operator_map[token[1]], operands[1], operands[1]>>

\* the operands stored in pop order
OperatorRowPopOrder(token, operands) ==
    <<operator_map[token[1]], operands[1], operands[2]>>

\* line 50: operands = (first popped, second popped)
OperatorRow(token, operands) ==
    <<operator_map[token[1]], operands[2], operands[1]>>

\* the row counter stored in place of the slot number
LeafRowCounter(token) ==
    <<operator_map[GroupKind(token)], i, i>>

\* line 57
LeafRow(token) ==
    <<operator_map[GroupKind(token)], GroupIndex(token), GroupIndex(token)>>

\* the test of line 61 off by one
TooManyRootsLate(st) == Len(st) > 2

\* line 61
TooManyRoots(st) == Len(st) > 1

AgraphOperator ==
    /\ pc = "agraph_loop" /\ j <= Len(postfix_tokens)
    /\ postfix_tokens[j] \in operators
    /\ IF Len(agraph_stack) < 2
       THEN \* a pop() of the empty list raises IndexError
            /\ pc' = "agraph_raised" /\ exception' = IndexError
            /\ agraph_stack' = <<>>
            /\ UNCHANGED <<j, command_array, i>>
       ELSE /\ LET n == Len(agraph_stack)
                   operands == <<agraph_stack[n], agraph_stack[n - 1]>>
               IN  /\ command_array' =
                         Append(command_array, OperatorRow(postfix_tokens[j], operands))
                   /\ agraph_stack' = Append(SubSeq(agraph_stack, 1, n - 2), i)
            /\ i' = i + 1 /\ j' = j + 1
            /\ UNCHANGED <<pc, exception>>
    /\ UNCHANGED <<convert_vars, postfix_tokens>>
    /\ UNCHANGED <<call_vars, outside_compile>>

AgraphLeaf ==
    /\ pc = "agraph_loop" /\ j <= Len(postfix_tokens)
    /\ postfix_tokens[j] \notin operators
    /\ command_array' = IF FullMatch(postfix_tokens[j])
                        THEN Append(command_array, LeafRow(postfix_tokens[j]))
                        ELSE command_array
    /\ agraph_stack' = Append(agraph_stack, i)
    /\ i' = i + 1 /\ j' = j + 1
    /\ UNCHANGED <<pc, exception, convert_vars, postfix_tokens>>
    /\ UNCHANGED <<call_vars, outside_compile>>

\* lines 61-63
AgraphReturn ==
    /\ pc = "agraph_loop" /\ j > Len(postfix_tokens)
    /\ IF TooManyRoots(agraph_stack)
       THEN pc' = "agraph_raised" /\ exception' = PostfixError
       ELSE pc' = "agraph_returned" /\ exception' = exception
    /\ UNCHANGED <<convert_vars, agraph_vars>>
    /\ UNCHANGED <<call_vars, outside_compile>>

-----------------------------------------------------------------------------

Next ==
    \/ ConvertOperator
    \/ ConvertOpenParen
    \/ ConvertCloseParen
    \/ ConvertLeaf
    \/ ConvertEndLoop
    \/ ConvertDrain
    \/ ConvertReturn
    \/ MainCallAgraph
    \/ AgraphOperator
    \/ AgraphLeaf
    \/ AgraphReturn

vars == <<compile_vars, outside_compile>>

Spec == Init /\ [][Next]_vars

-----------------------------------------------------------------------------
(* Compilations one after the other.                                       *)

\* what the caller of a compilation sees of it once it has ended
Outcome ==
    [pc |-> pc, exception |-> exception,
     postfix |-> IF pc = "convert_raised" THEN <<>> ELSE output,
     command_array |-> IF pc = "agraph_returned" THEN command_array ELSE <<>>]

\* lines 72-74 run again on other tokens: convert_to_postfix is entered anew;
\* the frame of the ended postfix_to_agraph call is dead until the next entry
CompileAgain ==
    /\ pc \in {"convert_raised", "agraph_raised", "agraph_returned"}
    /\ calls < MaxCalls
    /\ history' = history \cup {[input |-> infix_tokens, outcome |-> Outcome]}
    /\ calls' = calls + 1
    /\ \E tokens \in CallInputs : infix_tokens' = tokens
    /\ pc' = "convert_loop" /\ exception' = NoException
    /\ k' = 1 /\ d' = 1
    /\ stack' = ConvertLocals.stack /\ output' = ConvertLocals.output
    /\ UNCHANGED <<agraph_vars, outside_compile>>

InitCalls ==
    /\ pc = "convert_loop" /\ exception = NoException
    /\ infix_tokens \in CallInputs
    /\ k = 1 /\ stack = <<>> /\ output = <<>> /\ d = 1
    /\ postfix_tokens = <<>>
    /\ j = 1 /\ agraph_stack = <<>> /\ command_array = <<>> /\ i = 0
    /\ calls = 1 /\ history = {}
    /\ NoDiagnostics /\ NoOptimizer

NextCalls == Next \/ CompileAgain

SpecCalls == InitCalls /\ [][NextCalls]_vars

-----------------------------------------------------------------------------
(* EaDiagnostics                                                           *)

None == "None"
\* the types the offspring of an update underwent; "c2" is listed below but
\* undergone by none
CrossoverNames == {"c1"}
MutationNames == {"m1", "m2"}
CrossoverTypeLists == {<<>>, <<"c1">>, <<"c1", "c2">>}
MutationTypeLists == {<<"m1">>, <<"m1", "m2">>}

\* fitness of the population handed to update, by position
PopulationFitness == <<1, 2>>
\* fitness and parents of an offspring: better than both its parents, worse
\* than its one parent, and without parents
FitnessCases ==
    {[fitness |-> 0, parents |-> <<1, 2>>], [fitness |-> 3, parents |-> <<2>>],
     [fitness |-> 0, parents |-> <<>>]}

Offspring ==
    {[crossover_type |-> c, mutation_type |-> m, fitness |-> f.fitness,
      parents |-> f.parents] :
        c \in CrossoverNames \cup {None}, m \in MutationNames \cup {None},
        f \in FitnessCases}

OffspringLists == UNION {[1..n -> Offspring] : n \in 0..MaxOffspring}

Zeros == <<0, 0, 0>>
Add3(a, b) == <<a[1] + b[1], a[2] + b[2], a[3] + b[3]>>
RangeOf(seq) == {seq[p] : p \in 1..Len(seq)}
Ones(mask) == Cardinality({p \in 1..Len(mask) : mask[p]})

\* lines 66-72: a dict of zero arrays keyed by the listed types
ZeroStats(keys) == [t \in keys |-> Zeros]

\* lines 145-146: astype(bool) of an array of str or None
AsBool(types) == [p \in 1..Len(types) |-> types[p] # None]

\* lines 148-159
BeneficialVar(population, offspring) ==
    [p \in 1..Len(offspring) |->
        IF Len(offspring[p].parents) = 0 THEN FALSE
        ELSE \A q \in 1..Len(offspring[p].parents) :
                 offspring[p].fitness < population[offspring[p].parents[q]]]

DetrimentalVar(population, offspring) ==
    [p \in 1..Len(offspring) |->
        IF Len(offspring[p].parents) = 0 THEN FALSE
        ELSE \A q \in 1..Len(offspring[p].parents) :
                 offspring[p].fitness > population[offspring[p].parents[q]]]

\* lines 120-122: np.sum([idx, beneficial_var * idx, detrimental_var * idx], axis=1)
GetStats(idx, beneficial_var, detrimental_var) ==
    <<Ones(idx),
      Ones([p \in 1..Len(idx) |-> beneficial_var[p] /\ idx[p]]),
      Ones([p \in 1..Len(idx) |-> detrimental_var[p] /\ idx[p]])>>

\* array[mask]: the elements of array where mask is True
RECURSIVE Masked(_, _)
Masked(array, mask) ==
    IF Len(array) = 0 THEN <<>>
    ELSE IF Last(mask) THEN Append(Masked(Front(array), Front(mask)), Last(array))
         ELSE Masked(Front(array), Front(mask))

\* offspring_crossover_type == crossover_type, element by element
TypeIs(types, type_) == [p \in 1..Len(types) |-> types[p] = type_]

\* lines 177-187: the loop over the mutation types, run for one crossover type
RECURSIVE MutationTypeLoop(_, _, _, _)
MutationTypeLoop(st, crossover_type, todo, u) ==
    IF todo = <<>> THEN st
    ELSE LET mutation_type == Head(todo)
             mut_idx == TypeIs(u.offspring_mutation_type, mutation_type)
             cross_mut_idx ==
                 [p \in 1..Len(mut_idx) |-> u.cross_idx[crossover_type][p] /\ mut_idx[p]]
             st2 ==
                 [st EXCEPT
                    !.mutation_type_stats[mutation_type] =
                        Add3(@, GetStats(Masked(u.just_mut, mut_idx),
                                         Masked(u.beneficial_var, mut_idx),
                                         Masked(u.detrimental_var, mut_idx))),
                    !.crossover_mutation_type_stats[<<crossover_type, mutation_type>>] =
                        Add3(@, GetStats(Masked(u.cross_mut, cross_mut_idx),
                                         Masked(u.beneficial_var, cross_mut_idx),
                                         Masked(u.detrimental_var, cross_mut_idx)))]
         IN  MutationTypeLoop(st2, crossover_type, Tail(todo), u)

\* lines 171-187: the loop over the crossover types, with the loop over the
\* mutation types nested in it
RECURSIVE CrossoverTypeLoop(_, _, _)
CrossoverTypeLoop(st, todo, u) ==
    IF todo = <<>> THEN st
    ELSE LET crossover_type == Head(todo)
             cross_idx == u.cross_idx[crossover_type]
             st1 ==
                 [st EXCEPT
                    !.crossover_type_stats[crossover_type] =
                        Add3(@, GetStats(Masked(u.just_cross, cross_idx),
                                         Masked(u.beneficial_var, cross_idx),
                                         Masked(u.detrimental_var, cross_idx)))]
         IN  CrossoverTypeLoop(
                 MutationTypeLoop(st1, crossover_type, mutation_types, u),
                 Tail(todo), u)

\* lines 54-72
InitDiagnostics ==
    /\ diagnostics = "ready"
    /\ crossover_types \in CrossoverTypeLists
    /\ mutation_types \in MutationTypeLists
    /\ crossover_stats = Zeros /\ mutation_stats = Zeros /\ cross_mut_stats = Zeros
    /\ crossover_type_stats = ZeroStats(RangeOf(crossover_types))
    /\ mutation_type_stats = ZeroStats(RangeOf(mutation_types))
    /\ crossover_mutation_type_stats =
           ZeroStats(RangeOf(crossover_types) \X RangeOf(mutation_types))
    /\ updates = 0
    /\ only_mutation_totals = ZeroStats(RangeOf(mutation_types))
    /\ NoCompilation /\ NoOptimizer

\* lines 145-163: the arrays update derives from its arguments
UpdateArrays(population, offspring) ==
    LET offspring_crossover_type ==
            [p \in 1..Len(offspring) |-> offspring[p].crossover_type]
        offspring_mutation_type ==
            [p \in 1..Len(offspring) |-> offspring[p].mutation_type]
        offspring_crossover == AsBool(offspring_crossover_type)
        offspring_mutation == AsBool(offspring_mutation_type)
    IN  [offspring_mutation_type |-> offspring_mutation_type,
         cross_idx |-> [c \in RangeOf(crossover_types) |->
                           TypeIs(offspring_crossover_type, c)],
         just_cross |-> [p \in 1..Len(offspring) |->
                            offspring_crossover[p] /\ ~offspring_mutation[p]],
         just_mut |-> [p \in 1..Len(offspring) |->
                          ~offspring_crossover[p] /\ offspring_mutation[p]],
         cross_mut |-> [p \in 1..Len(offspring) |->
                           offspring_crossover[p] /\ offspring_mutation[p]],
         beneficial_var |-> BeneficialVar(population, offspring),
         detrimental_var |-> DetrimentalVar(population, offspring)]

\* the offspring with mutation type m and no crossover, as
\* <<all, beneficial, detrimental>>
OnlyMutation(offspring, u, m) ==
    LET only == {p \in 1..Len(offspring) :
                    /\ offspring[p].mutation_type = m
                    /\ offspring[p].crossover_type = None}
    IN  <<Cardinality(only),
          Cardinality({p \in only : u.beneficial_var[p]}),
          Cardinality({p \in only : u.detrimental_var[p]})>>

\* lines 124-187
Update ==
    /\ diagnostics = "ready" /\ updates < MaxUpdates
    /\ \E offspring \in OffspringLists :
       \E u \in {UpdateArrays(PopulationFitness, offspring)} :
       \E st \in {CrossoverTypeLoop(
                     [crossover_type_stats |-> crossover_type_stats,
                      mutation_type_stats |-> mutation_type_stats,
                      crossover_mutation_type_stats |-> crossover_mutation_type_stats],
                     crossover_types, u)} :
         /\ crossover_stats' =
                Add3(crossover_stats,
                     GetStats(u.just_cross, u.beneficial_var, u.detrimental_var))
         /\ mutation_stats' =
                Add3(mutation_stats,
                     GetStats(u.just_mut, u.beneficial_var, u.detrimental_var))
         /\ cross_mut_stats' =
                Add3(cross_mut_stats,
                     GetStats(u.cross_mut, u.beneficial_var, u.detrimental_var))
         /\ crossover_type_stats' = st.crossover_type_stats
         /\ mutation_type_stats' = st.mutation_type_stats
         /\ crossover_mutation_type_stats' = st.crossover_mutation_type_stats
         /\ only_mutation_totals' =
                [m \in DOMAIN only_mutation_totals |->
                    Add3(only_mutation_totals[m], OnlyMutation(offspring, u, m))]
    /\ updates' = updates + 1
    /\ UNCHANGED <<diagnostics, crossover_types, mutation_types, compile_vars,
                   opt_vars>>

NextDiagnostics == Update

SpecDiagnostics == InitDiagnostics /\ [][NextDiagnostics]_vars

-----------------------------------------------------------------------------
(* ScipyOptimizer                                                          *)

KeyError == "KeyError"
TypeError == "TypeError"

ROOT_SET == {"lm"}
MINIMIZE_SET == {"Nelder-Mead", "Powell", "CG", "BFGS", "L-BFGS-B", "TNC", "SLSQP"}

\* objective functions: what hasattr and isinstance answer for them
ObjectiveFns ==
    {[name |-> "FitnessFunction", evaluate_fitness_vector |-> FALSE,
      GradientMixin |-> FALSE, VectorGradientMixin |-> FALSE],
     [name |-> "VectorBasedFunction", evaluate_fitness_vector |-> TRUE,
      GradientMixin |-> FALSE, VectorGradientMixin |-> FALSE],
     [name |-> "GradientFitnessFunction", evaluate_fitness_vector |-> FALSE,
      GradientMixin |-> TRUE, VectorGradientMixin |-> FALSE],
     [name |-> "VectorGradientFunction", evaluate_fitness_vector |-> TRUE,
      GradientMixin |-> TRUE, VectorGradientMixin |-> TRUE]}

\* keyword arguments: every key given or left out; "hybr" is no listed method
EmptyDict == [key \in {} |-> Unset]
GivenMethods == {"lm", "BFGS", "Nelder-Mead", "hybr"}
OptionDicts ==
    {m @@ t @@ b :
        m \in {EmptyDict} \cup {("method" :> v) : v \in GivenMethods},
        t \in {EmptyDict, ("tol" :> "1e-8")},
        b \in {EmptyDict, ("param_init_bounds" :> <<-1, 1>>)}}

\* d[key] = value on a dict
SetItem(dict, key, value) ==
    [x \in DOMAIN dict \cup {key} |-> IF x = key THEN value ELSE dict[x]]

\* line 164
MethodListed(method) == ~(method \notin ROOT_SET /\ method \notin MINIMIZE_SET)

\* lines 130-131: the test of _verify_objective_fn passes
ObjectiveFnSuits(obj_fn, method) ==
    ~(method \in ROOT_SET /\ ~obj_fn.evaluate_fitness_vector)

\* lines 143-160: the options setter, up to its end or to the KeyError of
\* _verify_method; kwargs is stored before anything is verified
SetOptions(kwargs, old_scipy_options) ==
    LET with_bounds ==
            IF "param_init_bounds" \notin DOMAIN kwargs
            THEN SetItem(kwargs, "param_init_bounds", <<-10000, 10000>>)
            ELSE kwargs
        with_method ==
            IF "method" \notin DOMAIN with_bounds
            THEN SetItem(with_bounds, "method", "BFGS")
            ELSE with_bounds
        with_tol ==
            IF "tol" \notin DOMAIN with_method
            THEN SetItem(with_method, "tol", "1e-6")
            ELSE with_method
    IN  IF ~MethodListed(with_method["method"])
        THEN [options |-> with_method, scipy_options |-> old_scipy_options,
              raised |-> KeyError]
        ELSE [options |-> with_tol,
              scipy_options |-> [x \in DOMAIN with_tol \ {"param_init_bounds"} |->
                                    with_tol[x]],
              raised |-> NoException]

\* lines 123-126: the objective_fn setter; obj_fn is stored before it is
\* verified
SetObjectiveFn(obj_fn, method) ==
    [jacobian_capable |-> obj_fn.VectorGradientMixin,
     gradient_capable |-> obj_fn.GradientMixin,
     objective_fn |-> obj_fn,
     raised |-> IF ObjectiveFnSuits(obj_fn, method) THEN NoException ELSE TypeError]

\* lines 111-113: ScipyOptimizer(obj_fn, **kwargs)
Construct ==
    /\ optimizer = "absent"
    /\ \E obj_fn \in ObjectiveFns, kwargs \in OptionDicts :
       \E o \in {SetOptions(kwargs, Unset)} :
         /\ options' = o.options /\ scipy_options' = o.scipy_options
         /\ IF o.raised # NoException
            THEN /\ optimizer' = "failed" /\ raised' = o.raised
                 /\ UNCHANGED <<objective_fn, jacobian_capable, gradient_capable>>
            ELSE \E f \in {SetObjectiveFn(obj_fn, o.options["method"])} :
                   /\ objective_fn' = f.objective_fn
                   /\ jacobian_capable' = f.jacobian_capable
                   /\ gradient_capable' = f.gradient_capable
                   /\ raised' = f.raised
                   /\ optimizer' = IF f.raised = NoException THEN "ready"
                                   ELSE "failed"
    /\ UNCHANGED <<compile_vars, diag_vars>>

\* lines 141-160: optimizer.options = kwargs
AssignOptions ==
    /\ optimizer = "ready"
    /\ \E kwargs \in OptionDicts :
       \E o \in {SetOptions(kwargs, scipy_options)} :
         /\ options' = o.options /\ scipy_options' = o.scipy_options
         /\ raised' = o.raised
    /\ UNCHANGED <<optimizer, objective_fn, jacobian_capable, gradient_capable,
                   compile_vars, diag_vars>>

\* lines 121-126: optimizer.objective_fn = obj_fn
AssignObjectiveFn ==
    /\ optimizer = "ready"
    /\ \E obj_fn \in ObjectiveFns :
       \E f \in {SetObjectiveFn(obj_fn, options["method"])} :
         /\ objective_fn' = f.objective_fn
         /\ jacobian_capable' = f.jacobian_capable
         /\ gradient_capable' = f.gradient_capable
         /\ raised' = f.raised
    /\ UNCHANGED <<optimizer, options, scipy_options, compile_vars, diag_vars>>

InitOptimizer == NoOptimizer /\ NoCompilation /\ NoDiagnostics

NextOptimizer == Construct \/ AssignOptions \/ AssignObjectiveFn

SpecOptimizer == InitOptimizer /\ [][NextOptimizer]_vars

-----------------------------------------------------------------------------
(* Properties.                                                             *)

ConvertEnded == pc \notin {"convert_loop", "convert_drain"}
Ended == pc \in {"convert_raised", "agraph_raised", "agraph_returned"}
LeafCodes == {"VARIABLE", "CONSTANT"}
KnownLeaves == {X_0, X_1, X_2, C_0, C_1}

\* The expression tree a row denotes, followed through its back-references;
\* rows are numbered from 0 as in the array.
RECURSIVE Decode(_, _)
Decode(ca, r) ==
    IF r < 0 \/ r >= Len(ca) THEN <<"dangling">>
    ELSE LET row == ca[r + 1]
         IN  IF row[1] \in LeafCodes THEN <<row[1], row[2]>>
             ELSE IF row[2] >= r \/ row[3] >= r THEN <<"dangling">>
             ELSE <<row[1], Decode(ca, row[2]), Decode(ca, row[3])>>

RootTree == Decode(command_array, Len(command_array) - 1)

IsLeafFor(t, token) == Len(t) = 2 /\ t[1] \in LeafCodes /\ Render(t) = <<token>>
IsNodeFor(t, op) == Len(t) = 3 /\ t[1] \in OperatorCodes /\ Tok(SymbolOf(t[1])) = op

TwoOperatorShape(ts) ==
    /\ Len(ts) = 5
    /\ ts[1] \in KnownLeaves /\ ts[3] \in KnownLeaves /\ ts[5] \in KnownLeaves
    /\ ts[2] \in operators /\ ts[4] \in operators

\* the tree (a op1 b) op2 c
IsLeftNested(t, ts) ==
    /\ IsNodeFor(t, ts[4])
    /\ IsNodeFor(t[2], ts[2])
    /\ IsLeafFor(t[2][2], ts[1]) /\ IsLeafFor(t[2][3], ts[3])
    /\ IsLeafFor(t[3], ts[5])

\* the tree a op1 (b op2 c)
IsRightNested(t, ts) ==
    /\ IsNodeFor(t, ts[2])
    /\ IsLeafFor(t[2], ts[1])
    /\ IsNodeFor(t[3], ts[4])
    /\ IsLeafFor(t[3][2], ts[3]) /\ IsLeafFor(t[3][3], ts[5])

\* C1: a fully-parenthesized infix input compiles, and the last row of the
\* command array decodes to exactly the expression tree of the input.
C1_FullyParenthesizedTree ==
    (infix_tokens \in FPInputs /\ Ended) =>
        /\ pc = "agraph_returned"
        /\ RootTree \in FPTrees
        /\ Render(RootTree) = infix_tokens

C1_Witness ==
    /\ pc = "agraph_returned"
    /\ infix_tokens = Render(<<"SUBTRACTION", <<"CONSTANT", 12>>,
                               <<"POWER", <<"VARIABLE", 0>>, <<"CONSTANT", 12>>>>>>)
    /\ Len(command_array) = 5

PrecedenceExample == <<X_0, Tok("+"), X_1, Tok("*"), X_2>>

\* C2: X_0 + X_1 * X_2 compiles to an Addition at the root whose left operand
\* is Variable 0 and whose right operand is the Multiplication of Variable 1
\* and Variable 2: operators left on the side stack at the end of the input
\* are emitted so that the one of higher precedence binds tighter.
C2_HigherPrecedenceBindsTighter ==
    (infix_tokens = PrecedenceExample /\ Ended) =>
        /\ pc = "agraph_returned"
        /\ IsRightNested(RootTree, infix_tokens)
        /\ RootTree = <<"ADDITION", <<"VARIABLE", 0>>,
                        <<"MULTIPLICATION", <<"VARIABLE", 1>>, <<"VARIABLE", 2>>>>>>

\* C3: a op1 b op2 c with operators of equal precedence has the postfix
\* a b op1 c op2 and compiles to (a op1 b) op2 c.
C3_EqualPrecedenceLeftAssociative ==
    (TwoOperatorShape(infix_tokens) /\ ConvertEnded
       /\ precedence[infix_tokens[2]] = precedence[infix_tokens[4]]) =>
        /\ pc # "convert_raised"
        /\ output = <<infix_tokens[1], infix_tokens[3], infix_tokens[2],
                      infix_tokens[5], infix_tokens[4]>>
        /\ pc # "agraph_raised"
        /\ pc = "agraph_returned" => IsLeftNested(RootTree, infix_tokens)

C3_Witness ==
    /\ pc = "agraph_returned"
    /\ infix_tokens = <<X_0, Tok("^"), X_1, Tok("^"), X_2>>
    /\ command_array[5] = <<"POWER", 2, 3>>

Count(ts, from, to, token) == Cardinality({p \in from..to : ts[p] = token})
\* "(" minus ")" among ts[from..to]
Depth(ts, from, to) == Count(ts, from, to, LParen) - Count(ts, from, to, RParen)

\* some ")" has no unconsumed "(" to its left
HasUnmatchedClose(ts) == \E n \in 1..Len(ts) : Depth(ts, 1, n) < 0
\* some "(" is never closed by a later ")"
HasUnclosedOpen(ts) ==
    \E p \in 1..Len(ts) :
        ts[p] = LParen /\ \A q \in p..Len(ts) : Depth(ts, p, q) > 0

\* C4: an input with a ")" that has no unconsumed "(" to its left makes
\* convert_to_postfix fail with RuntimeError "Mismatched parenthesis".
C4_UnmatchedCloseRaisesMismatched ==
    (HasUnmatchedClose(infix_tokens) /\ ConvertEnded) =>
        pc = "convert_raised" /\ exception = MismatchedParenthesis

\* C5: an input with a "(" that is never closed makes convert_to_postfix fail
\* with RuntimeError "Mismatched parenthesis".
C5_UnclosedOpenRaisesMismatched ==
    (HasUnclosedOpen(infix_tokens) /\ ConvertEnded) =>
        (pc = "convert_raised" /\ exception = MismatchedParenthesis)

\* The number of indices a postfix reduction leaves, from n indices; -1 when an
\* operator is reached with fewer than two indices.
RECURSIVE Residual(_, _)
Residual(ts, n) ==
    IF ts = <<>> THEN n
    ELSE IF Head(ts) \in operators
         THEN IF n < 2 THEN -1 ELSE Residual(Tail(ts), n - 1)
         ELSE Residual(Tail(ts), n + 1)

AgraphEnded == pc \in {"agraph_raised", "agraph_returned"}

\* C6: a postfix sequence whose reduction leaves more than one index makes
\* postfix_to_agraph fail with RuntimeError "Error evaluating postfix
\* expression".
C6_TooManyRootsRaises ==
    (AgraphEnded /\ Residual(postfix_tokens, 0) > 1) =>
        pc = "agraph_raised" /\ exception = PostfixError

C6_Witness ==
    /\ pc = "agraph_raised" /\ exception = PostfixError
    /\ postfix_tokens = <<X_0, X_1>>
    /\ agraph_stack = <<0, 1>>

\* C7: a postfix sequence whose reduction runs out of indices (an operator
\* with fewer than two indices, or no index left at the end) makes
\* postfix_to_agraph fail with RuntimeError "Error evaluating postfix
\* expression".
C7_TooFewRootsRaises ==
    (AgraphEnded /\ Residual(postfix_tokens, 0) < 1) =>
        pc = "agraph_raised" /\ exception = PostfixError

\* C8: in a returned command array both operands of every binary-operator row
\* are smaller than the row's own position.
C8_BackReferencesPointEarlier ==
    pc = "agraph_returned" =>
        \A r \in 1..Len(command_array) :
            command_array[r][1] \in OperatorCodes =>
                /\ command_array[r][2] < r - 1
                /\ command_array[r][3] < r - 1

IsLeafToken(t) == t \notin operators \cup {LParen, RParen}
Leaves(ts) == SelectSeq(ts, IsLeafToken)

\* C9: when convert_to_postfix returns, the leaf tokens of the output are the
\* leaf tokens of the input in the same order, and the output holds no
\* parenthesis.
C9_LeavesKeepOrder ==
    pc \in {"convert_returned", "agraph_loop", "agraph_raised", "agraph_returned"} =>
        /\ Leaves(output) = Leaves(infix_tokens)
        /\ \A p \in 1..Len(output) : output[p] \notin {LParen, RParen}

C9_Witness ==
    /\ pc = "convert_returned"
    /\ infix_tokens = <<LParen, X_1, RParen, X_0>>
    /\ output = <<X_1, X_0>>

\* leaf tokens X_n and C_n written in decimal
WrittenLeaves == {Render(<<c, n>>)[1] : c \in LeafCodes, n \in 0..12}

\* C10: the expression of __main__ has the postfix X_0 X_1 + C_0 + C_1 + and
\* the rows below, with root index 6; every operator row has the earlier
\* pushed index as operand1 and the later one as operand2, and the row of a
\* matching leaf holds its slot number in both operands.
C10_MainExpressionRows ==
    /\ (infix_tokens = MainExpression /\ ConvertEnded) =>
          /\ pc # "convert_raised"
          /\ output = <<X_0, X_1, Tok("+"), C_0, Tok("+"), C_1, Tok("+")>>
    /\ (infix_tokens = MainExpression /\ Ended) =>
          /\ pc = "agraph_returned"
          /\ command_array = << <<"VARIABLE", 0, 0>>, <<"VARIABLE", 1, 1>>,
                                <<"ADDITION", 0, 1>>, <<"CONSTANT", 0, 0>>,
                                <<"ADDITION", 2, 3>>, <<"CONSTANT", 1, 1>>,
                                <<"ADDITION", 4, 5>> >>
          /\ agraph_stack = <<6>>
    /\ \A r \in 1..Len(command_array) :
          command_array[r][1] \in OperatorCodes =>
              command_array[r][2] < command_array[r][3]
    /\ (\A p \in 1..(j - 1) : postfix_tokens[p] \in operators \cup WrittenLeaves) =>
          \A r \in 1..Len(command_array) :
              postfix_tokens[r] \in WrittenLeaves =>
                  /\ IsLeafFor(<<command_array[r][1], command_array[r][2]>>,
                               postfix_tokens[r])
                  /\ command_array[r][3] = command_array[r][2]

C10_Witness ==
    /\ pc = "agraph_returned"
    /\ infix_tokens = MainExpression
    /\ Len(command_array) = 7

\* every token among the first n is an operator or a leaf X_n / C_n
WellFormedPrefix(ts, n) == \A p \in 1..n : ts[p] \in operators \cup WrittenLeaves

\* the operand fields of later binary rows that name row r (numbered from 0)
ReferencesTo(ca, r) ==
    {<<q, f>> \in (1..Len(ca)) \X {2, 3} :
        ca[q][1] \in OperatorCodes /\ q - 1 > r /\ ca[q][f] = r}

\* C12: while every token read so far is an operator or a matching leaf, the
\* row counter equals the length of the array; when postfix_to_agraph returns
\* on such a non-empty sequence, the one index left on the stack is that of
\* the last row, the last row is referenced by no row, and every other row is
\* an operand of exactly one later binary row.
C12_OneTreeRootedAtLastRow ==
    /\ (pc \in {"agraph_loop", "agraph_raised", "agraph_returned"}
          /\ WellFormedPrefix(postfix_tokens, j - 1)) =>
            i = Len(command_array)
    /\ (pc = "agraph_returned" /\ postfix_tokens # <<>>
          /\ WellFormedPrefix(postfix_tokens, Len(postfix_tokens))) =>
            /\ Len(command_array) = Len(postfix_tokens)
            /\ agraph_stack = <<Len(command_array) - 1>>
            /\ ReferencesTo(command_array, Len(command_array) - 1) = {}
            /\ \A r \in 0..(Len(command_array) - 2) :
                   Cardinality(ReferencesTo(command_array, r)) = 1

C12_Witness ==
    /\ pc = "agraph_returned"
    /\ postfix_tokens = <<X_0, X_1, Tok("+"), C_0, Tok("+"), C_1, Tok("+")>>
    /\ agraph_stack = <<6>>
    /\ ReferencesTo(command_array, 2) = {<<5, 2>>}

\* the earlier compilations together with the present one, once it has ended
EndedCalls ==
    history \cup (IF Ended THEN {[input |-> infix_tokens, outcome |-> Outcome]}
                  ELSE {})

\* C11: two compilations of the same token sequence, whatever was compiled
\* before or between them, end the same way: the same error, or command
\* arrays equal row for row.
C11_SameInputSameOutcome ==
    \A a \in EndedCalls : \A b \in EndedCalls :
        a.input = b.input => a.outcome = b.outcome

C11_Witness ==
    /\ calls = 3 /\ pc = "agraph_returned"
    /\ infix_tokens = MainExpression
    /\ Cardinality(history) = 2
    /\ \E h \in history : h.input = MainExpression /\ h.outcome = Outcome
    /\ \E h \in history : h.input = <<Unmatched, Tok("*"), X_0>>

\* C13: after any updates, the stats of every listed mutation type are the
\* numbers of offspring, over all updates, that underwent that mutation and no
\* crossover (all, beneficial, detrimental); so they never exceed the
\* aggregate mutation stats.
C13_MutationTypeStatsCountOnlyMutation ==
    diagnostics = "ready" =>
        \A m \in RangeOf(mutation_types) :
            /\ mutation_type_stats[m] = only_mutation_totals[m]
            /\ \A f \in 1..3 : mutation_type_stats[m][f] <= mutation_stats[f]

\* the configured method is listed, and a root method has an objective
\* function with evaluate_fitness_vector
OptimizerConsistent ==
    /\ options["method"] \in ROOT_SET \cup MINIMIZE_SET
    /\ options["method"] \in ROOT_SET => objective_fn.evaluate_fitness_vector

\* C14: after a successful construction and any assignments to options and
\* objective_fn, the configured method is in ROOT_SET or MINIMIZE_SET and a
\* method of ROOT_SET has an objective function with evaluate_fitness_vector;
\* an assignment that raises leaves the stored options and objective function
\* as they were.
C14_OptimizerStaysConsistent ==
    [][optimizer' = "ready" =>
          /\ OptimizerConsistent'
          /\ (optimizer = "ready" /\ raised' # NoException) =>
                 (options' = options /\ objective_fn' = objective_fn)]_vars

====
